---- MODULE Spec2Model ----
(***************************************************************************)
(* BendBoxEngine: the WebGL distortion engine of 3D-Curve-Distortion.      *)
(*                                                                         *)
(* The repository holds three versions of the class:                      *)
(*   "engine" : src/components/BendBoxEngine.ts          (smoothed props)  *)
(*   "snap"   : src/flat.tsx, lines 97-257               (props snap)      *)
(*   "framer" : src/flat.tsx, lines 717-969              (smoothed props,  *)
(*              request-tagged async media loading)                        *)
(* The variable `variant` says which one an instance is.                   *)
(*                                                                         *)
(* Numbers are fixed point: the integer One stands for 1.0.  motionSpeed   *)
(* and the targets are multiples of a quarter, and at most MaxFrames       *)
(* frames are run, so every product below is an exact multiple of 1/One    *)
(* (and exact in IEEE double arithmetic as well).                          *)
(***************************************************************************)
EXTENDS Integers, Sequences, FiniteSets, TLC

\* ------------------------------------------------------------- bounds
MaxLoads == 3          \* loadMedia calls on one engine
MaxFrames == 3         \* animation frames run after construction
MaxDisposeCalls == 2   \* dispose() calls on one engine
MaxResizes == 3        \* notifications of the resize observer
MaxScrolls == 2        \* animation frames of a canvas after its mount

One == 4 ^ (MaxFrames + 1)
Quarter == One \div 4
Half == One \div 2

Variants == {"engine", "snap", "framer"}
Smoothing == {"engine", "framer"}

\* The two React components that own their scene themselves, src/components/
\* BendBox.tsx and WebGLCanvas.tsx, are modelled as far as their viewport goes.
Components == Variants \cup {"BendBox", "WebGLCanvas"}

\* ------------------------------------------------------------- media sources
\* A URL string is its stem and extension; a File is a name and a declared
\* MIME type <<major, minor>>.  w, h: the native size the media decodes to.
Url(stem, ext, w, h) ==
    [kind |-> "url", stem |-> stem, ext |-> ext, type |-> <<"", "">>, w |-> w, h |-> h]
FileOf(stem, ext, major, minor, w, h) ==
    [kind |-> "file", stem |-> stem, ext |-> ext, type |-> <<major, minor>>, w |-> w, h |-> h]
Undefined == [kind |-> "undefined", stem |-> "", ext |-> "", type |-> <<"", "">>, w |-> 0, h |-> 0]

ImageA == Url("a", "jpg", 2, 1)
ImageB == Url("b", "png", 1, 1)
VideoC == Url("c", "MP4", 16, 9)
FileD == FileOf("d", "png", "image", "png", 4, 3)
FileE == FileOf("e", "bin", "video", "mp4", 3, 2)

toLowerCase(s) ==
    CASE s = "MP4" -> "mp4"
      [] s = "WEBM" -> "webm"
      [] s = "MOV" -> "mov"
      [] s = "Mp4" -> "mp4"
      [] s = "WebM" -> "webm"
      [] s = "moV" -> "mov"
      [] s = "PNG" -> "png"
      [] s = "MP4?V=2" -> "mp4?v=2"
      [] OTHER -> s

\* isVideo without the i flag
isVideoCaseSensitive(url) == url.ext \in {"mp4", "webm", "mov"}

isVideo(url) == toLowerCase(url.ext) \in {"mp4", "webm", "mov"}

isVideoSource(mediaSource) ==
    IF mediaSource.kind = "file" THEN mediaSource.type[1] = "video" ELSE isVideo(mediaSource)

\* ------------------------------------------------------------- state
VARIABLES
    variant,             \* which version of the class this instance is
    isDisposed,
    currentMediaSource,
    videoElement,        \* 0 (undefined) or the load whose <video> it is
    currentObjectUrl,    \* 0 (undefined) or the load whose object URL it is
    loadMediaRequestId,  \* framer only
    loads,               \* one record per loadMedia call, in call order
    uTexture,            \* uniforms.uTexture: 0 (null) or the load whose texture it is
    uImageAspect,        \* uniforms.uImageAspect, as <<width, height>>
    uniforms,            \* uniforms.uTime, uFlow, uLens, uPinch, uScale
    targetProps,
    animatedProps,
    raf,                 \* the window's pending animation-frame requests
    rafSeq,              \* the last handle requestAnimationFrame returned
    animationFrameId,
    released,            \* how often each release call was made
    frames,              \* animate runs after the constructor's
    renders,             \* renderer.render calls
    disposeCalls,        \* dispose() calls made by the host
    host,                \* the React wrapper BendBox, where one hosts the engine
    animated0,           \* animatedProps at the latest setProps
    framesSince,         \* animate runs since the latest setProps
    lastProps,           \* the props of the latest setProps call
    container,           \* <<clientWidth, clientHeight>> of the container
    cameraAspect,        \* camera.aspect, a fraction <<n, d>> in lowest terms
    rendererSize,        \* the size given to renderer.setSize
    meshScale,           \* <<mesh.scale.x, mesh.scale.y>>, two fractions
    uPlaneAspect,        \* uniforms.uPlaneAspect, a fraction
    resizeFrameId,       \* BendBox.tsx only; 0: undefined
    resizes,             \* notifications the resize observer has delivered
    recomputes,          \* viewport recomputations made
    fragment,            \* the fragment the fragment shader ran for last
    canvas               \* WebGLCanvas.tsx only: scrollRef.current, uScroll, uIntensity

viewVars ==
    <<container, cameraAspect, rendererSize, meshScale, uPlaneAspect, resizeFrameId,
      resizes, recomputes, fragment, canvas>>

engineVars ==
    <<variant, isDisposed, currentMediaSource, videoElement, currentObjectUrl,
      loadMediaRequestId, loads, uTexture, uImageAspect, uniforms, targetProps, animatedProps, raf, rafSeq,
      animationFrameId, released, frames, renders, animated0, framesSince, lastProps, viewVars>>

vars == <<engineVars, disposeCalls, host>>

mediaVars ==
    <<currentMediaSource, videoElement, currentObjectUrl, loadMediaRequestId, loads,
      uTexture, uImageAspect>>

loopVars == <<raf, rafSeq, animationFrameId, frames, renders>>

\* ------------------------------------------------------------- numbers
\* JavaScript's NaN, and the undefined a missing field reads as: two values far
\* outside the range the finite numbers of the model take.
NaN == 0 - One * One
undefined == NaN - 1

\* the global isFinite
isFinite(x) == x \notin {NaN, undefined}

Abs(x) == IF x < 0 THEN -x ELSE x

RECURSIVE Pow(_, _)
Pow(b, n) == IF n = 0 THEN 1 ELSE b * Pow(b, n - 1)

\* product of two fixed-point numbers
Mul(a, b) == (a * b) \div One

\* lerp with the weights exchanged
lerpSwapped(x, y, t) == Mul(t, x) + Mul(One - t, y)

\* lerp that forgets to weigh the old value down
lerpUnweighted(x, y, t) == x + Mul(t, y)

\* THREE.MathUtils.lerp: (1 - t) * x + t * y.  An operand that is NaN or
\* undefined makes the sum NaN.
lerp(x, y, t) ==
    IF isFinite(x) /\ isFinite(y) /\ isFinite(t) THEN Mul(One - t, x) + Mul(t, y) ELSE NaN

Fields == {"flow", "lens", "pinch", "scale"}

\* 0.075, to the nearest 1/One below.  It is in force only until the first
\* setProps, while the animated values equal their targets.
DefaultMotionSpeed == (75 * One) \div 1000

\* ------------------------------------------------------------- the viewport
\* Sizes of the container, in units of 100 CSS pixels.
InitialSize == <<4, 3>>
Sizes == {<<4, 3>>, <<8, 6>>, <<3, 4>>}
\* A container that is hidden or collapsed reports a zero width or height.
ZeroSizes == {<<0, 0>>, <<4, 0>>, <<0, 3>>}

RECURSIVE Gcd(_, _)
Gcd(a, b) == IF b = 0 THEN a ELSE Gcd(b, a % b)

\* The non-negative numbers of the viewport are fractions <<n, d>> in lowest
\* terms; as in JavaScript a division by zero throws nothing: <<1, 0>> is
\* Infinity and <<0, 0>> is NaN.
NaNFraction == <<0, 0>>
Frac(n, d) ==
    IF n = 0 /\ d = 0 THEN NaNFraction ELSE <<n \div Gcd(n, d), d \div Gcd(n, d)>>
Times(p, q) == Frac(p[1] * q[1], p[2] * q[2])
Over(p, q) == Times(p, <<q[2], q[1]>>)
FiniteFraction(p) == p[2] # 0
\* a === b
StrictEquals(p, q) == p # NaNFraction /\ p = q

\* clientWidth / clientHeight
Ratio(size) == Frac(size[1], size[2])

\* fitPlaneToView: height = 2 * tan(fov / 2) * dist, about 3/2 for the 75
\* degree camera at distance 1; width = height * camera.aspect.
PlaneHeight == <<3, 2>>
PlaneWidth(aspect) == Times(PlaneHeight, aspect)
PlaneScale(aspect) == <<Over(PlaneWidth(aspect), <<2, 1>>), Over(PlaneHeight, <<2, 1>>)>>
PlaneAspect(aspect) == Over(PlaneWidth(aspect), PlaneHeight)

\* ------------------------------------------------------------- the fragment shader
\* The numbers of the shader are signed fractions <<n, d>> with d > 0.
Norm(n, d) == <<n \div Gcd(Abs(n), d), d \div Gcd(Abs(n), d)>>
Minus(p, q) == Norm(p[1] * q[2] - q[1] * p[2], p[2] * q[2])
Plus(p, q) == Norm(p[1] * q[2] + q[1] * p[2], p[2] * q[2])
Divided(p, q) == Norm(p[1] * q[2], p[2] * q[1])
Less(p, q) == p[1] * q[2] < q[1] * p[2]

\* The texture coordinates of the fragments considered: a 5 x 5 grid over
\* the plane, corners and centre included.
UVs == {<<<<a, 4>>, <<b, 4>>>> : a \in 0..4, b \in 0..4}

\* A shaded fragment: the inputs of the shader, the vec2 it scales the
\* coordinates with (ratio, or scale in the cropping shader) and what it made
\* of them.
NoFragment ==
    [uv |-> <<>>, planeAspect |-> <<>>, imageAspect |-> <<>>, ratio |-> <<>>,
     correctedUv |-> <<>>, discarded |-> FALSE]

\* min(a, b) of GLSL
min(a, b) == IF Less(b, a) THEN b ELSE a

\* the letterbox shader without the two min calls
fragmentShaderLetterboxUnclamped(vUv, planeAspect, imageAspect) ==
    LET one == <<1, 1>>
        ratio == <<Divided(planeAspect, imageAspect), Divided(imageAspect, planeAspect)>>
        axis(i) == Plus(Norm(vUv[i][1] * ratio[i][1], vUv[i][2] * ratio[i][2]),
                        Divided(Minus(one, ratio[i]), <<2, 1>>))
    IN  [uv |-> vUv, planeAspect |-> planeAspect, imageAspect |-> imageAspect,
         ratio |-> ratio, correctedUv |-> <<axis(1), axis(2)>>, discarded |-> FALSE]

\* main() of the letterbox shader of the snapping engine, of BendBox.tsx and
\* of WebGLCanvas.tsx: it samples every fragment, none is discarded.
fragmentShaderLetterbox(vUv, planeAspect, imageAspect) ==
    LET one == <<1, 1>>
        ratio == <<min(Divided(planeAspect, imageAspect), one),
                   min(Divided(imageAspect, planeAspect), one)>>
        axis(i) == Plus(Norm(vUv[i][1] * ratio[i][1], vUv[i][2] * ratio[i][2]),
                        Divided(Minus(one, ratio[i]), <<2, 1>>))
    IN  [uv |-> vUv, planeAspect |-> planeAspect, imageAspect |-> imageAspect,
         ratio |-> ratio, correctedUv |-> <<axis(1), axis(2)>>, discarded |-> FALSE]

\* the cropping shader without its discard
fragmentShaderKeepsAll(vUv, planeAspect, imageAspect) ==
    LET R == Divided(planeAspect, imageAspect)
        one == <<1, 1>>
        half == <<1, 2>>
        scale == IF Less(one, R) THEN <<Divided(one, R), one>> ELSE <<one, R>>
        correctedUv == <<Plus(Divided(Minus(vUv[1], half), scale[1]), half),
                         Plus(Divided(Minus(vUv[2], half), scale[2]), half)>>
    IN  [uv |-> vUv, planeAspect |-> planeAspect, imageAspect |-> imageAspect,
         ratio |-> scale, correctedUv |-> correctedUv, discarded |-> FALSE]

\* main() of the fragment shader of BendBoxEngine.ts and of the framer engine.
fragmentShader(vUv, planeAspect, imageAspect) ==
    LET R == Divided(planeAspect, imageAspect)
        one == <<1, 1>>
        half == <<1, 2>>
        scale == IF Less(one, R) THEN <<Divided(one, R), one>> ELSE <<one, R>>
        correctedUv == <<Plus(Divided(Minus(vUv[1], half), scale[1]), half),
                         Plus(Divided(Minus(vUv[2], half), scale[2]), half)>>
    IN  [uv |-> vUv, planeAspect |-> planeAspect, imageAspect |-> imageAspect,
         ratio |-> scale, correctedUv |-> correctedUv,
         discarded |-> \/ Less(correctedUv[1], <<0, 1>>) \/ Less(one, correctedUv[1])
                       \/ Less(correctedUv[2], <<0, 1>>) \/ Less(one, correctedUv[2])]

\* ------------------------------------------------------------- the scroll of WebGLCanvas.tsx
\* Its numbers are signed fractions as well; sums and differences are taken
\* over the least common denominator.
Lcm(a, b) == (a \div Gcd(a, b)) * b
Difference(p, q) ==
    LET l == Lcm(p[2], q[2]) IN Norm(p[1] * (l \div p[2]) - q[1] * (l \div q[2]), l)
Sum(p, q) == Difference(p, <<-q[1], q[2]>>)
Product(p, q) == Norm(p[1] * q[1], p[2] * q[2])

minEase == <<3, 100>>
maxEase == <<1, 5>>
maxIntensity == <<3, 2>>

\* newEase without the division by maxIntensity
newEaseUnscaled(intensity) ==
    Sum(minEase, Product(intensity, Difference(maxEase, minEase)))

\* The intensity effect: minEase + (intensity / maxIntensity) * (maxEase - minEase)
newEase(intensity) ==
    Sum(minEase, Product(Divided(intensity, maxIntensity), Difference(maxEase, minEase)))

\* animate: scrollRef.current.target = elementCenterY - viewportCenterY;
\* scrollRef.current.current += (target - current) * ease
eased(scroll, target) ==
    [current |-> Sum(scroll.current,
                     Product(Difference(target, scroll.current), scroll.ease)),
     target |-> target,
     ease |-> scroll.ease]

\* The distances of the element's centre from the viewport's, in pixels, and
\* the values of the intensity prop that are considered.
Targets == {<<-10, 1>>, <<0, 1>>, <<4, 1>>, <<10, 1>>}
Intensities == {<<0, 1>>, <<3, 10>>, <<3, 4>>, <<3, 2>>}

\* useRef({ current: 0, target: 0, ease: 0.05 })
InitialScroll == [current |-> <<0, 1>>, target |-> <<0, 1>>, ease |-> <<1, 20>>]

NoCanvas == [scrollRef |-> <<>>, uScroll |-> <<>>, uIntensity |-> <<>>]

\* The canvas after the effects of its first render: the mount effect has
\* run animate() once, with the ease the ref was created with, and the
\* intensity effect has set the ease.
MountedCanvas ==
    {[scrollRef |-> [eased(InitialScroll, target) EXCEPT !.ease = newEase(intensity)],
      uScroll |-> eased(InitialScroll, target).current,
      uIntensity |-> intensity] : target \in Targets, intensity \in Intensities}

\* ------------------------------------------------------------- construction
\* No setProps call was made yet.
NoProps ==
    [mediaSource |-> Undefined, flow |-> undefined, lens |-> undefined,
     pinch |-> undefined, scale |-> undefined, motionSpeed |-> undefined]

\* The state the constructor leaves in a container of the given size: it calls
\* fitPlaneToView and ends with one synchronous animate() call, which renders
\* once and requests the first frame.
ConstructedIn(size) ==
    /\ isDisposed = FALSE
    /\ currentMediaSource = Undefined
    /\ videoElement = 0
    /\ currentObjectUrl = 0
    /\ loadMediaRequestId = 0
    /\ loads = <<>>
    /\ uTexture = 0
    /\ uImageAspect = <<1, 1>>
    /\ uniforms = [uTime |-> 0, uFlow |-> 0, uLens |-> 0, uPinch |-> 0, uScale |-> One]
    /\ targetProps = [flow |-> 0, lens |-> 0, pinch |-> 0, scale |-> One,
                      motionSpeed |-> DefaultMotionSpeed]
    /\ animatedProps = [flow |-> 0, lens |-> 0, pinch |-> 0, scale |-> One]
    /\ raf = {[id |-> 1, cb |-> "animate"]}
    /\ rafSeq = 1
    /\ animationFrameId = 1
    /\ released = [cancelAnimationFrame |-> 0, disconnect |-> 0, domRemove |-> 0,
                   renderer |-> 0, geometry |-> 0, material |-> 0]
    /\ frames = 0
    /\ renders = 1
    /\ disposeCalls = 0
    /\ animated0 = animatedProps
    /\ framesSince = 0
    /\ lastProps = NoProps
    /\ container = size
    /\ cameraAspect = Ratio(size)
    /\ rendererSize = size
    /\ meshScale = PlaneScale(Ratio(size))
    /\ uPlaneAspect = PlaneAspect(Ratio(size))
    /\ resizeFrameId = 0
    /\ resizes = 0
    /\ recomputes = 0
    /\ fragment = NoFragment
    /\ canvas \in IF variant = "WebGLCanvas" THEN MountedCanvas ELSE {NoCanvas}

Constructed == ConstructedIn(InitialSize)

\* An engine that is hosted by no wrapper.
NoHost == [phase |-> "none", props |-> NoProps, pending |-> FALSE]

Init == variant \in Variants /\ Constructed /\ host = NoHost

\* ------------------------------------------------------------- the frame loop
\* window.cancelAnimationFrame(handle)
cancelAnimationFrame(handle) == {r \in raf : r.id # handle}

\* Smoothed with the constructor's motionSpeed in place of the target's
SmoothedAtDefault ==
    [f \in Fields |-> lerp(animatedProps[f], targetProps[f], DefaultMotionSpeed)]

Smoothed ==
    [f \in Fields |-> lerp(animatedProps[f], targetProps[f], targetProps.motionSpeed)]

\* animateBody that requests the next frame and drops the handle
animateBodyDropsHandle(r) ==
    /\ animatedProps' = IF variant \in Smoothing THEN Smoothed ELSE animatedProps
    /\ uniforms' =
         IF variant \in Smoothing
         THEN [uTime |-> frames + 1, uFlow |-> Smoothed.flow, uLens |-> Smoothed.lens,
               uPinch |-> Smoothed.pinch, uScale |-> Smoothed.scale]
         ELSE [uniforms EXCEPT !.uTime = frames + 1]
    /\ renders' = renders + 1
    /\ rafSeq' = rafSeq + 1
    /\ raf' = (raf \ {r}) \cup {[id |-> rafSeq + 1, cb |-> "animate"]}
    /\ UNCHANGED animationFrameId

\* The body of animate below its guard, run for the request r.
animateBody(r) ==
    /\ animatedProps' = IF variant \in Smoothing THEN Smoothed ELSE animatedProps
    /\ uniforms' =
         IF variant \in Smoothing
         THEN [uTime |-> frames + 1, uFlow |-> Smoothed.flow, uLens |-> Smoothed.lens,
               uPinch |-> Smoothed.pinch, uScale |-> Smoothed.scale]
         ELSE [uniforms EXCEPT !.uTime = frames + 1]
    /\ renders' = renders + 1
    /\ rafSeq' = rafSeq + 1
    /\ raf' = (raf \ {r}) \cup {[id |-> rafSeq + 1, cb |-> "animate"]}
    /\ animationFrameId' = rafSeq + 1

\* The browser delivers a pending animation frame to animate.
animate ==
    \E r \in raf :
        /\ r.cb = "animate"
        /\ frames < MaxFrames
        /\ frames' = frames + 1
        /\ framesSince' = framesSince + 1
        /\ IF variant # "engine" /\ isDisposed
           THEN /\ raf' = raf \ {r}
                /\ UNCHANGED <<animatedProps, uniforms, renders, rafSeq, animationFrameId>>
           ELSE animateBody(r)
        /\ UNCHANGED <<variant, isDisposed, mediaVars, targetProps, released,
                       disposeCalls, host, animated0, lastProps, viewVars>>

\* ------------------------------------------------------------- resizing
\* The recomputation for a container of the given size: camera.aspect,
\* renderer.setSize and fitPlaneToView, which scales the mesh to width/2 :
\* height/2 with width = height * camera.aspect and sets uPlaneAspect.
fitPlaneToView(size) ==
    /\ cameraAspect' = Ratio(size)
    /\ rendererSize' = size
    /\ meshScale' = PlaneScale(Ratio(size))
    /\ uPlaneAspect' = PlaneAspect(Ratio(size))
    /\ recomputes' = recomputes + 1

\* The container has the given size and the resize observer, while connected,
\* calls its callback: onResize of the engines requests an animation frame for
\* the recomputation; BendBox.tsx cancels the frame it requested before;
\* WebGLCanvas.tsx recomputes in the callback itself.
onResize(size) ==
    /\ released.disconnect = 0
    /\ resizes < MaxResizes
    /\ resizes' = resizes + 1
    /\ container' = size
    /\ CASE variant \in Variants ->
              /\ rafSeq' = rafSeq + 1
              /\ raf' = raf \cup {[id |-> rafSeq + 1, cb |-> "resize"]}
              /\ UNCHANGED <<cameraAspect, rendererSize, meshScale, uPlaneAspect,
                             resizeFrameId, recomputes>>
         [] variant = "BendBox" ->
              /\ rafSeq' = rafSeq + 1
              /\ raf' = cancelAnimationFrame(resizeFrameId)
                            \cup {[id |-> rafSeq + 1, cb |-> "resize"]}
              /\ resizeFrameId' = rafSeq + 1
              /\ UNCHANGED <<cameraAspect, rendererSize, meshScale, uPlaneAspect, recomputes>>
         [] variant = "WebGLCanvas" ->
              /\ fitPlaneToView(size)
              /\ UNCHANGED <<raf, rafSeq, resizeFrameId>>
    /\ UNCHANGED <<canvas, fragment, variant, isDisposed, mediaVars, uniforms, targetProps, animatedProps,
                   animationFrameId, released, frames, renders, disposeCalls, host, animated0,
                   framesSince, lastProps>>

\* onResizeFrame without the isDisposed test
onResizeFrameUnchecked ==
    \E r \in raf :
        /\ r.cb = "resize"
        /\ raf' = raf \ {r}
        /\ fitPlaneToView(container)
        /\ UNCHANGED <<container, resizeFrameId, resizes>>
        /\ UNCHANGED <<canvas, fragment, variant, isDisposed, mediaVars, uniforms, targetProps,
                       animatedProps, rafSeq, animationFrameId, released, frames, renders,
                       disposeCalls, host, animated0, framesSince, lastProps>>

\* The browser runs the animation-frame callback that onResize requested.
onResizeFrame ==
    \E r \in raf :
        /\ r.cb = "resize"
        /\ raf' = raf \ {r}
        /\ IF variant \in Variants /\ isDisposed
           THEN UNCHANGED <<cameraAspect, rendererSize, meshScale, uPlaneAspect, recomputes>>
           ELSE fitPlaneToView(container)
        /\ UNCHANGED <<container, resizeFrameId, resizes>>
        /\ UNCHANGED <<canvas, fragment, variant, isDisposed, mediaVars, uniforms, targetProps, animatedProps,
                       rafSeq, animationFrameId, released, frames, renders, disposeCalls, host,
                       animated0, framesSince, lastProps>>

\* The cleanup of the mount effect of BendBox.tsx and of WebGLCanvas.tsx, as far
\* as the frame loop, the observer and the scene go.  React runs it once.
unmount ==
    /\ variant \in Components \ Variants
    /\ released.disconnect = 0
    /\ raf' = IF variant = "BendBox"
              THEN {r \in raf : r.id \notin {animationFrameId, resizeFrameId}}
              ELSE cancelAnimationFrame(animationFrameId)
    /\ released' =
         [released EXCEPT !.cancelAnimationFrame = @ + (IF variant = "BendBox" THEN 2 ELSE 1),
                          !.disconnect = @ + 1,
                          !.domRemove = @ + 1,
                          !.renderer = @ + (IF variant = "BendBox" THEN 1 ELSE 0),
                          !.geometry = @ + 1,
                          !.material = @ + 1]
    /\ UNCHANGED <<canvas, fragment, variant, isDisposed, mediaVars, uniforms, targetProps, animatedProps,
                   rafSeq, animationFrameId, frames, renders, disposeCalls, host, animated0,
                   framesSince, lastProps, viewVars>>

\* ------------------------------------------------------------- media
NewLoad(mediaSource, requestId, element) ==
    [src |-> mediaSource,
     video |-> isVideoSource(mediaSource),
     req |-> requestId,
     url |-> mediaSource.kind = "file",      \* URL.createObjectURL was called
     revokes |-> 0,                          \* URL.revokeObjectURL calls on it
     st |-> "pending",                       \* pending, starting, ok, failed
     created |-> FALSE,                      \* its THREE.Texture exists
     disposes |-> 0,                         \* dispose() calls on its texture
     assigned |-> FALSE,                     \* its texture was put in uTexture
     prev |-> uTexture,                      \* uTexture when loadMedia was called
     el |-> element]                         \* none, idle, requested, playing, stopped, error

\* releaseMedia that leaves the video element playing
releaseMediaKeepsVideo ==
    [i \in DOMAIN loads |->
        [loads[i] EXCEPT
            !.disposes = IF uTexture = i THEN @ + 1 ELSE @,
            !.revokes = IF currentObjectUrl = i THEN @ + 1 ELSE @]]

\* On the resources the engine holds: uTexture.value?.dispose(), pause the
\* video element and detach its source, revoke the object URL.
releaseMedia ==
    [i \in DOMAIN loads |->
        [loads[i] EXCEPT
            !.disposes = IF uTexture = i THEN @ + 1 ELSE @,
            !.el = IF videoElement = i THEN "stopped" ELSE @,
            !.revokes = IF currentObjectUrl = i THEN @ + 1 ELSE @]]

\* loadMedia of BendBoxEngine.ts and of the snap engine: the uniform keeps the
\* disposed texture; play() is called at once on the new video element.
loadMediaEngine(mediaSource) ==
    LET k == Len(loads) + 1
        video == isVideoSource(mediaSource)
    IN  /\ currentMediaSource' = mediaSource
        /\ loads' = Append(releaseMedia,
                           NewLoad(mediaSource, 0, IF video THEN "requested" ELSE "none"))
        /\ videoElement' = IF video THEN k ELSE 0
        /\ currentObjectUrl' = IF mediaSource.kind = "file" THEN k ELSE 0
        /\ UNCHANGED <<loadMediaRequestId, uTexture, uImageAspect>>

\* !mediaSource: the empty string
Falsy(mediaSource) ==
    mediaSource.kind = "url" /\ mediaSource.stem = "" /\ mediaSource.ext = ""

\* loadMedia of the framer engine up to its first await.
loadMediaFramer(mediaSource) ==
    LET k == Len(loads) + 1
        video == isVideoSource(mediaSource)
    IN  /\ loadMediaRequestId' = loadMediaRequestId + 1
        /\ currentMediaSource' = mediaSource
        /\ uTexture' = 0
        /\ UNCHANGED uImageAspect
        /\ IF Falsy(mediaSource)
           THEN /\ loads' = releaseMedia
                /\ videoElement' = 0
                /\ currentObjectUrl' = 0
           ELSE /\ loads' = Append(releaseMedia,
                                   NewLoad(mediaSource, loadMediaRequestId + 1,
                                           IF video THEN "idle" ELSE "none"))
                /\ videoElement' = IF video THEN k ELSE 0
                /\ currentObjectUrl' = IF mediaSource.kind = "file" THEN k ELSE 0

\* loadMedia that records the source only when the load completes
loadMediaSourceLater(mediaSource) ==
    LET k == Len(loads) + 1
        video == isVideoSource(mediaSource)
    IN  /\ loadMediaRequestId' = IF variant = "framer" THEN loadMediaRequestId + 1
                                  ELSE loadMediaRequestId
        /\ UNCHANGED currentMediaSource
        /\ uTexture' = IF variant = "framer" THEN 0 ELSE uTexture
        /\ UNCHANGED uImageAspect
        /\ loads' = Append(releaseMedia,
                           NewLoad(mediaSource, loadMediaRequestId',
                                   IF video THEN "requested" ELSE "none"))
        /\ videoElement' = IF video THEN k ELSE 0
        /\ currentObjectUrl' = IF mediaSource.kind = "file" THEN k ELSE 0

loadMedia(mediaSource) ==
    IF variant = "framer" THEN loadMediaFramer(mediaSource) ELSE loadMediaEngine(mediaSource)

\* ------------------------------------------------------------- setProps
\* Numbers that keeps the motionSpeed of an earlier call
NumbersStaleSpeed(props) ==
    [flow |-> props.flow, lens |-> props.lens, pinch |-> props.pinch,
     scale |-> props.scale, motionSpeed |-> targetProps.motionSpeed]

Numbers(props) ==
    [flow |-> props.flow, lens |-> props.lens, pinch |-> props.pinch,
     scale |-> props.scale, motionSpeed |-> props.motionSpeed]

\* setProps that reloads the media on every call
setPropsAlwaysLoads(props) ==
    /\ Len(loads) < MaxLoads
    /\ loadMedia(props.mediaSource)
    /\ IF variant \in Smoothing
       THEN targetProps' = Numbers(props) /\ UNCHANGED uniforms
       ELSE /\ uniforms' = [uniforms EXCEPT !.uFlow = props.flow, !.uLens = props.lens,
                                              !.uPinch = props.pinch, !.uScale = props.scale]
            /\ UNCHANGED targetProps
    /\ animated0' = animatedProps
    /\ framesSince' = 0
    /\ lastProps' = props
    /\ UNCHANGED <<variant, isDisposed, animatedProps, loopVars, released, disposeCalls,
                   viewVars>>

\* setProps that also writes the four uniforms, in every version
setPropsSnapping(props) ==
    /\ IF currentMediaSource # props.mediaSource
       THEN Len(loads) < MaxLoads /\ loadMedia(props.mediaSource)
       ELSE UNCHANGED mediaVars
    /\ targetProps' = Numbers(props)
    /\ uniforms' = [uniforms EXCEPT !.uFlow = props.flow, !.uLens = props.lens,
                                   !.uPinch = props.pinch, !.uScale = props.scale]
    /\ animated0' = animatedProps
    /\ framesSince' = 0
    /\ lastProps' = props
    /\ UNCHANGED <<variant, isDisposed, animatedProps, loopVars, released, disposeCalls,
                   viewVars>>

setProps(props) ==
    /\ IF currentMediaSource # props.mediaSource
       THEN Len(loads) < MaxLoads /\ loadMedia(props.mediaSource)
       ELSE UNCHANGED mediaVars
    /\ IF variant \in Smoothing
       THEN targetProps' = Numbers(props) /\ UNCHANGED uniforms
       ELSE /\ uniforms' = [uniforms EXCEPT !.uFlow = props.flow, !.uLens = props.lens,
                                              !.uPinch = props.pinch, !.uScale = props.scale]
            /\ UNCHANGED targetProps
    /\ animated0' = animatedProps
    /\ framesSince' = 0
    /\ lastProps' = props
    /\ UNCHANGED <<variant, isDisposed, animatedProps, loopVars, released, disposeCalls,
                   viewVars>>

\* ------------------------------------------------------------- dispose
releaseScene ==
    [released EXCEPT !.cancelAnimationFrame = @ + 1, !.disconnect = @ + 1,
                     !.domRemove = @ + 1, !.renderer = @ + 1, !.geometry = @ + 1,
                     !.material = @ + 1]

\* disposeEngine without the cancelAnimationFrame call
disposeEngineKeepsFrame ==
    /\ isDisposed' = TRUE
    /\ raf' = raf
    /\ released' = releaseScene
    /\ loads' = releaseMedia
    /\ UNCHANGED <<currentMediaSource, videoElement, currentObjectUrl, loadMediaRequestId,
                   uTexture, uImageAspect>>

\* dispose of BendBoxEngine.ts and of the snap engine, below its guard
disposeEngine ==
    /\ isDisposed' = TRUE
    /\ raf' = cancelAnimationFrame(animationFrameId)
    /\ released' = releaseScene
    /\ loads' = releaseMedia
    /\ UNCHANGED <<currentMediaSource, videoElement, currentObjectUrl, loadMediaRequestId,
                   uTexture, uImageAspect>>

\* dispose of the framer engine, below its guard: _cleanupPreviousMedia
disposeFramer ==
    /\ isDisposed' = TRUE
    /\ raf' = cancelAnimationFrame(animationFrameId)
    /\ released' = releaseScene
    /\ loads' = releaseMedia
    /\ uTexture' = 0
    /\ videoElement' = 0
    /\ currentObjectUrl' = 0
    /\ UNCHANGED <<currentMediaSource, loadMediaRequestId, uImageAspect>>

\* dispose without its isDisposed guard
disposeUnguarded ==
    /\ disposeCalls < MaxDisposeCalls
    /\ disposeCalls' = disposeCalls + 1
    /\ IF variant = "framer" THEN disposeFramer ELSE disposeEngine
    /\ UNCHANGED <<variant, uniforms, targetProps, animatedProps, rafSeq,
                   animationFrameId, frames, renders, animated0, framesSince, lastProps, viewVars>>

dispose ==
    /\ disposeCalls < MaxDisposeCalls
    /\ disposeCalls' = disposeCalls + 1
    /\ IF isDisposed
       THEN UNCHANGED engineVars
       ELSE /\ IF variant = "framer" THEN disposeFramer ELSE disposeEngine
            /\ UNCHANGED <<variant, uniforms, targetProps, animatedProps, rafSeq,
                           animationFrameId, frames, renders, animated0, framesSince, lastProps, viewVars>>

\* ------------------------------------------------------------- load completions
Resolution(i) == <<loads[i].src.w, loads[i].src.h>>

\* catchFailure that revokes the object URL and goes on holding it
catchFailureKeepsUrl(i, element) ==
    /\ loads' = [j \in DOMAIN loads |->
                   [loads[j] EXCEPT
                       !.st = IF j = i THEN "failed" ELSE @,
                       !.el = IF j = i THEN element ELSE @,
                       !.revokes = IF currentObjectUrl = j THEN @ + 1 ELSE @]]
    /\ UNCHANGED <<currentMediaSource, videoElement, currentObjectUrl, loadMediaRequestId,
                   uTexture, uImageAspect>>

\* catchFailure that also forgets which source the engine was given
catchFailureForgetsSource(i, element) ==
    /\ loads' = [j \in DOMAIN loads |->
                   [loads[j] EXCEPT
                       !.st = IF j = i THEN "failed" ELSE @,
                       !.el = IF j = i THEN element ELSE @,
                       !.revokes = IF currentObjectUrl = j THEN @ + 1 ELSE @]]
    /\ currentObjectUrl' = 0
    /\ currentMediaSource' = Undefined
    /\ UNCHANGED <<videoElement, loadMediaRequestId, uTexture, uImageAspect>>

\* The catch block of the framer loadMedia, for the failed load i: it revokes
\* whatever object URL the engine holds at that moment.
catchFailure(i, element) ==
    /\ loads' = [j \in DOMAIN loads |->
                   [loads[j] EXCEPT
                       !.st = IF j = i THEN "failed" ELSE @,
                       !.el = IF j = i THEN element ELSE @,
                       !.revokes = IF currentObjectUrl = j THEN @ + 1 ELSE @]]
    /\ currentObjectUrl' = 0
    /\ UNCHANGED <<currentMediaSource, videoElement, loadMediaRequestId, uTexture,
                   uImageAspect>>

\* applyResult that takes every result for a superseded one
applyResultAsStale(i, element) ==
    /\ loads' = [loads EXCEPT ![i].st = "ok", ![i].created = TRUE,
                              ![i].disposes = @ + 1, ![i].el = element]
    /\ UNCHANGED <<currentMediaSource, videoElement, currentObjectUrl,
                   loadMediaRequestId, uTexture, uImageAspect>>

\* The framer loadMedia after its await, for the texture of load i.
applyResult(i, element) ==
    IF isDisposed \/ loads[i].req # loadMediaRequestId
    THEN /\ loads' = [loads EXCEPT ![i].st = "ok", ![i].created = TRUE,
                                   ![i].disposes = @ + 1, ![i].el = element]
         /\ UNCHANGED <<currentMediaSource, videoElement, currentObjectUrl,
                        loadMediaRequestId, uTexture, uImageAspect>>
    ELSE /\ loads' = [loads EXCEPT ![i].st = "ok", ![i].created = TRUE,
                                   ![i].assigned = TRUE, ![i].el = element]
         /\ uTexture' = i
         /\ uImageAspect' = Resolution(i)
         /\ UNCHANGED <<currentMediaSource, videoElement, currentObjectUrl,
                        loadMediaRequestId>>

\* onLoadEngine that assigns the texture and leaves uImageAspect as it is
onLoadEngineKeepsAspect(i) ==
    /\ loads' = [loads EXCEPT ![i].st = "ok", ![i].created = TRUE, ![i].assigned = TRUE]
    /\ uTexture' = i
    /\ UNCHANGED <<currentMediaSource, videoElement, currentObjectUrl, loadMediaRequestId,
                   uImageAspect>>

\* The onLoad callback of textureLoader.load (engine, snap).
onLoadEngine(i) ==
    /\ loads' = [loads EXCEPT ![i].st = "ok", ![i].created = TRUE, ![i].assigned = TRUE]
    /\ uTexture' = i
    /\ uImageAspect' = Resolution(i)
    /\ UNCHANGED <<currentMediaSource, videoElement, currentObjectUrl, loadMediaRequestId>>

\* _loadImageTexture after loadAsync resolved, and loadMedia after it (framer).
loadImageTextureFramer(i) ==
    IF isDisposed
    THEN /\ loads' = [j \in DOMAIN loads |->
                        [loads[j] EXCEPT
                            !.st = IF j = i THEN "failed" ELSE @,
                            !.created = IF j = i THEN TRUE ELSE @,
                            !.disposes = IF j = i THEN @ + 1 ELSE @,
                            !.revokes = IF currentObjectUrl = j THEN @ + 1 ELSE @]]
         /\ currentObjectUrl' = 0
         /\ UNCHANGED <<currentMediaSource, videoElement, loadMediaRequestId, uTexture,
                        uImageAspect>>
    ELSE applyResult(i, "none")

\* The image of load i has been fetched and decoded.
imageLoaded(i) ==
    /\ ~loads[i].video
    /\ loads[i].st = "pending"
    /\ IF variant = "framer" THEN loadImageTextureFramer(i) ELSE onLoadEngine(i)
    /\ UNCHANGED <<variant, isDisposed, uniforms, targetProps, animatedProps, loopVars,
                   released, disposeCalls, host, animated0, framesSince, lastProps, viewVars>>

\* imageFailed that also cancels the frame the loop has requested
imageFailedStopsLoop(i) ==
    /\ ~loads[i].video
    /\ loads[i].st = "pending"
    /\ IF variant = "framer"
       THEN catchFailure(i, "none")
       ELSE /\ loads' = [loads EXCEPT ![i].st = "failed"]
            /\ UNCHANGED <<currentMediaSource, videoElement, currentObjectUrl,
                           loadMediaRequestId, uTexture, uImageAspect>>
    /\ raf' = cancelAnimationFrame(animationFrameId)
    /\ UNCHANGED <<variant, isDisposed, uniforms, targetProps, animatedProps, rafSeq,
                   animationFrameId, frames, renders, released, disposeCalls, host, animated0,
                   framesSince, lastProps, viewVars>>

\* The image of load i could not be fetched or decoded.  textureLoader.load is
\* given no error callback in the engine and snap versions.
imageFailed(i) ==
    /\ ~loads[i].video
    /\ loads[i].st = "pending"
    /\ IF variant = "framer"
       THEN catchFailure(i, "none")
       ELSE /\ loads' = [loads EXCEPT ![i].st = "failed"]
            /\ UNCHANGED <<currentMediaSource, videoElement, currentObjectUrl,
                           loadMediaRequestId, uTexture, uImageAspect>>
    /\ UNCHANGED <<variant, isDisposed, uniforms, targetProps, animatedProps, loopVars,
                   released, disposeCalls, host, animated0, framesSince, lastProps, viewVars>>

\* onCanPlay of _loadVideoTexture (framer): the element can play and play() is
\* called.  A detached element fires no canplay.
videoCanPlay(i) ==
    /\ variant = "framer"
    /\ loads[i].video
    /\ loads[i].st = "pending"
    /\ loads[i].el = "idle"
    /\ loads' = [loads EXCEPT ![i].st = "starting", ![i].el = "requested"]
    /\ UNCHANGED <<variant, isDisposed, currentMediaSource, videoElement, currentObjectUrl,
                   loadMediaRequestId, uTexture, uImageAspect, uniforms, targetProps,
                   animatedProps, loopVars, released, disposeCalls, host, animated0, framesSince, lastProps, viewVars>>

\* The then-callback of play() in the engine and snap versions: the texture
\* wraps this.videoElement.
onPlayEngine(i) ==
    /\ loads' = [loads EXCEPT ![i].st = "ok", ![i].created = TRUE, ![i].assigned = TRUE,
                              ![i].el = "playing"]
    /\ uTexture' = i
    /\ uImageAspect' = Resolution(videoElement)
    /\ UNCHANGED <<currentMediaSource, videoElement, currentObjectUrl, loadMediaRequestId>>

\* The then-callback of play() in _loadVideoTexture, and loadMedia after it.
onPlayFramer(i) ==
    IF isDisposed THEN catchFailure(i, "playing") ELSE applyResult(i, "playing")

\* The play() promise of load i's video element resolves: playback started.
\* pause() rejects a pending play() promise, so a stopped element never gets here.
videoPlaying(i) ==
    /\ loads[i].video
    /\ loads[i].el = "requested"
    /\ IF variant = "framer"
       THEN loads[i].st = "starting" /\ onPlayFramer(i)
       ELSE loads[i].st = "pending" /\ onPlayEngine(i)
    /\ UNCHANGED <<variant, isDisposed, uniforms, targetProps, animatedProps, loopVars,
                   released, disposeCalls, host, animated0, framesSince, lastProps, viewVars>>

\* The video of load i fails: its play() promise is rejected (also by the pause()
\* of a cleanup), or, in the framer version, its error event fires.
videoFailed(i) ==
    /\ loads[i].video
    /\ IF variant = "framer"
       THEN /\ \/ loads[i].st = "pending" /\ loads[i].el = "idle"
               \/ loads[i].st = "starting"
            /\ catchFailure(i, IF loads[i].el = "stopped" THEN "stopped" ELSE "error")
       ELSE /\ loads[i].st = "pending"
            /\ loads' = [loads EXCEPT ![i].st = "failed",
                                      ![i].el = IF @ = "stopped" THEN "stopped" ELSE "error"]
            /\ UNCHANGED <<currentMediaSource, videoElement, currentObjectUrl,
                           loadMediaRequestId, uTexture, uImageAspect>>
    /\ UNCHANGED <<variant, isDisposed, uniforms, targetProps, animatedProps, loopVars,
                   released, disposeCalls, host, animated0, framesSince, lastProps, viewVars>>

\* ------------------------------------------------------------- the host
\* What the host passes to setProps.
Props(mediaSource, numbers) ==
    [mediaSource |-> mediaSource, flow |-> numbers[1], lens |-> numbers[2],
     pinch |-> numbers[3], scale |-> numbers[4], motionSpeed |-> numbers[5]]

\* <<flow, lens, pinch, scale, motionSpeed>>
Rest == <<0, 0, 0, One, Half>>
Glide == <<Half, -One, One + Half, Half, Quarter>>
Swirl == <<Quarter, One, -(One + Half), One + Half, 3 * Quarter>>
Snap == <<0, Half, One, One, One>>

LoopProps == {Props(m, n) : m \in {ImageA, FileE}, n \in {Glide, Swirl, Snap}}

MediaProps == {Props(m, Rest) : m \in {ImageA, VideoC, FileD, FileE}}

\* The host calls setProps only on a running engine (the BendBox wrapper calls
\* it from effects of the mounted component and disposes at unmount), and
\* dispose() at any time, also on a disposed engine.
Next ==
    \/ \E p \in LoopProps : ~isDisposed /\ setProps(p) /\ UNCHANGED host
    \/ dispose /\ UNCHANGED host
    \/ animate
    \/ \E i \in DOMAIN loads : imageLoaded(i)
    \/ \E i \in DOMAIN loads : imageFailed(i)
    \/ \E i \in DOMAIN loads : videoCanPlay(i)
    \/ \E i \in DOMAIN loads : videoPlaying(i)
    \/ \E i \in DOMAIN loads : videoFailed(i)

Spec == Init /\ [][Next]_vars

\* The media loader alone, over more sources.  animate reads and writes none of
\* mediaVars, so the frame loop is left out here.
NextMedia ==
    \/ \E p \in MediaProps : ~isDisposed /\ setProps(p) /\ UNCHANGED host
    \/ dispose /\ UNCHANGED host
    \/ \E i \in DOMAIN loads : imageLoaded(i)
    \/ \E i \in DOMAIN loads : imageFailed(i)
    \/ \E i \in DOMAIN loads : videoCanPlay(i)
    \/ \E i \in DOMAIN loads : videoPlaying(i)
    \/ \E i \in DOMAIN loads : videoFailed(i)

SpecMedia == Init /\ [][NextMedia]_vars

\* The browser settles every load it was given: the image decodes or its
\* error event fires, the video element fires canplay or error, the promise
\* of play() is fulfilled or rejected.  Which of them, it chooses.
settle(i) ==
    /\ i \in DOMAIN loads
    /\ \/ imageLoaded(i)
       \/ imageFailed(i)
       \/ videoCanPlay(i)
       \/ videoPlaying(i)
       \/ videoFailed(i)

\* The media loader under that fairness, over an image, a video and a file.
LiveProps == {Props(m, Rest) : m \in {ImageA, VideoC, FileD}}

NextLive ==
    \/ \E p \in LiveProps : ~isDisposed /\ setProps(p) /\ UNCHANGED host
    \/ dispose /\ UNCHANGED host
    \/ \E i \in DOMAIN loads : settle(i)

SpecLive == Init /\ [][NextLive]_vars /\ \A i \in 1..MaxLoads : WF_vars(settle(i))

\* A host whose props object may lack motionSpeed: the BendBoxProps that
\* BendBoxEngine.ts imports from BendBox.tsx declares no such field.
Unset == <<Quarter, One, -One, Half, undefined>>

OmittedProps == {Props(ImageA, n) : n \in {Glide, Snap, Unset}}

NextOmitted ==
    \/ \E p \in OmittedProps : ~isDisposed /\ setProps(p) /\ UNCHANGED host
    \/ dispose /\ UNCHANGED host
    \/ animate
    \/ \E i \in DOMAIN loads : imageLoaded(i)
    \/ \E i \in DOMAIN loads : imageFailed(i)

SpecOmitted == Init /\ [][NextOmitted]_vars

\* A host that mounts the engine with one source, out of many: what follows
\* the last dot of a URL (nothing, for a URL without a dot), and Files whose
\* name and declared type disagree.
Extensions ==
    {"mp4", "MP4", "Mp4", "webm", "WEBM", "WebM", "mov", "MOV", "moV",
     "jpg", "png", "PNG", "gif", "m4v", "mp3", "mp4?v=2", "MP4?V=2", "mp4/", ""}

FileTypes ==
    {<<"video", "mp4">>, <<"video", "webm">>, <<"image", "png">>, <<"audio", "mp4">>,
     <<"application", "mp4">>, <<"", "">>}

Sources ==
    {Url("m", e, 4, 3) : e \in Extensions}
       \cup {FileOf("m", e, t[1], t[2], 4, 3) : e \in {"mp4", "MOV", "png", ""}, t \in FileTypes}

SourceProps == {Props(m, Rest) : m \in Sources}

NextSources ==
    \/ \E p \in SourceProps : ~isDisposed /\ loads = <<>> /\ setProps(p) /\ UNCHANGED host
    \/ dispose /\ UNCHANGED host
    \/ \E i \in DOMAIN loads : imageLoaded(i)
    \/ \E i \in DOMAIN loads : imageFailed(i)
    \/ \E i \in DOMAIN loads : videoCanPlay(i)
    \/ \E i \in DOMAIN loads : videoPlaying(i)
    \/ \E i \in DOMAIN loads : videoFailed(i)

SpecSources == Init /\ [][NextSources]_vars

\* The viewport of the three engines and of the two components under resize
\* notifications.  The frame loop of WebGLCanvas.tsx is left out.
InitResize == variant \in Components /\ Constructed /\ host = NoHost

NextResize ==
    \/ \E size \in Sizes : onResize(size)
    \/ onResizeFrame
    \/ variant # "WebGLCanvas" /\ animate
    \/ variant \in Variants /\ dispose /\ UNCHANGED host
    \/ unmount

SpecResize == InitResize /\ [][NextResize]_vars

\* The viewport of the three engines when the container may also report a
\* zero width or height, at construction and afterwards.
InitDegenerate ==
    /\ variant \in Variants
    /\ \E size \in Sizes \cup ZeroSizes : ConstructedIn(size)
    /\ host = NoHost

NextDegenerate ==
    \/ \E size \in Sizes \cup ZeroSizes : onResize(size)
    \/ onResizeFrame
    \/ animate
    \/ dispose /\ UNCHANGED host

SpecDegenerate == InitDegenerate /\ [][NextDegenerate]_vars

\* ------------------------------------------------------------- shading
\* While it renders, the GPU runs the fragment shader for a fragment of the
\* plane with the uniforms as they are.
shade(vUv) ==
    /\ fragment' = IF variant = "snap"
                   THEN fragmentShaderLetterbox(vUv, uPlaneAspect, uImageAspect)
                   ELSE fragmentShader(vUv, uPlaneAspect, uImageAspect)
    /\ UNCHANGED <<variant, isDisposed, mediaVars, uniforms, targetProps, animatedProps,
                   loopVars, released, disposeCalls, host, animated0, framesSince, lastProps,
                   container, cameraAspect, rendererSize, meshScale, uPlaneAspect,
                   resizeFrameId, resizes, recomputes, canvas>>

\* Images of several shapes on planes of several shapes, in the two engines
\* whose shader crops.  The container keeps the size it had at construction.
Wide == Url("wide", "png", 8, 4)
Tall == Url("tall", "png", 3, 6)
ShaderProps == {Props(m, Rest) : m \in {ImageA, Wide, Tall}}
ShaderSizes == {<<4, 4>>, <<4, 3>>, <<3, 4>>, <<8, 4>>}

InitShader ==
    /\ variant \in {"engine", "framer"}
    /\ \E size \in ShaderSizes : ConstructedIn(size)
    /\ host = NoHost

NextShader ==
    \/ \E p \in ShaderProps : ~isDisposed /\ loads = <<>> /\ setProps(p) /\ UNCHANGED host
    \/ \E i \in DOMAIN loads : imageLoaded(i)
    \/ \E vUv \in UVs : shade(vUv)

SpecShader == InitShader /\ [][NextShader]_vars

\* The same for the engine whose shader letterboxes, over images, a file and
\* a video of several shapes.
LetterboxProps == {Props(m, Rest) : m \in {ImageA, ImageB, Tall, VideoC, FileD}}

InitLetterbox ==
    /\ variant = "snap"
    /\ \E size \in ShaderSizes : ConstructedIn(size)
    /\ host = NoHost

NextLetterbox ==
    \/ \E p \in LetterboxProps : ~isDisposed /\ loads = <<>> /\ setProps(p) /\ UNCHANGED host
    \/ \E i \in DOMAIN loads : imageLoaded(i)
    \/ \E i \in DOMAIN loads : videoPlaying(i)
    \/ \E vUv \in UVs : shade(vUv)

SpecLetterbox == InitLetterbox /\ [][NextLetterbox]_vars

\* ------------------------------------------------------------- the wrapper
\* The React component BendBox of flat.tsx around the snapping and the framer
\* engine.  host.phase is "created" when the mount effect has constructed the
\* engine, "mounted" when that effect has returned, "unmounted" when its
\* cleanup has run; host.props are the props of the latest render and
\* host.pending tells that the prop effect of that render has yet to run.

\* The dependency list of the prop effect.
PropDepsWithoutSpeed == {"mediaSource", "flow", "lens", "pinch", "scale"}

PropDeps ==
    IF variant = "framer"
    THEN {"mediaSource", "flow", "lens", "pinch", "scale", "motionSpeed"}
    ELSE {"mediaSource", "flow", "lens", "pinch", "scale"}

Hasty == <<Half, -One, One + Half, Half, 3 * Quarter>>

WrapperProps == {Props(m, n) : m \in {ImageA, ImageB}, n \in {Glide, Hasty, Snap}}

\* The rest of the mount effect after the constructor: setProps(props).  React
\* runs every effect after the first render, so the prop effect is due too.
mountEffect ==
    /\ host.phase = "created"
    /\ setProps(host.props)
    /\ host' = [host EXCEPT !.phase = "mounted", !.pending = TRUE]

\* The prop effect: if (engineRef.current) engineRef.current.setProps(props)
propEffect ==
    /\ host.phase = "mounted"
    /\ host.pending
    /\ setProps(host.props)
    /\ host' = [host EXCEPT !.pending = FALSE]

\* The parent renders the wrapper with new props.  React has run the effects
\* of the render before, and schedules the prop effect if one of its
\* dependencies has changed.
render(props) ==
    /\ host.phase = "mounted"
    /\ ~host.pending
    /\ props # host.props
    /\ host' = [host EXCEPT !.props = props,
                            !.pending = \E d \in PropDeps : props[d] # host.props[d]]
    /\ UNCHANGED <<engineVars, disposeCalls>>

\* An unmount whose cleanup leaves the engine running
unmountWrapperKeepsEngine ==
    /\ host.phase = "mounted"
    /\ ~host.pending
    /\ host' = [host EXCEPT !.phase = "unmounted"]
    /\ UNCHANGED <<engineVars, disposeCalls>>

\* React unmounts the wrapper and runs the cleanup of the mount effect:
\* engineRef.current?.dispose().  No effect runs afterwards.
unmountWrapper ==
    /\ host.phase = "mounted"
    /\ ~host.pending
    /\ dispose
    /\ host' = [host EXCEPT !.phase = "unmounted"]

InitWrapper ==
    /\ variant \in {"snap", "framer"}
    /\ Constructed
    /\ \E p \in WrapperProps : host = [phase |-> "created", props |-> p, pending |-> FALSE]

\* The frame loop is left out: it reads the targets and writes nothing that
\* the wrapper reads or writes.
NextWrapper ==
    \/ mountEffect
    \/ propEffect
    \/ \E p \in WrapperProps : render(p)
    \/ unmountWrapper
    \/ \E i \in DOMAIN loads : imageLoaded(i)
    \/ \E i \in DOMAIN loads : imageFailed(i)

SpecWrapper == InitWrapper /\ [][NextWrapper]_vars

\* A host that goes on calling setProps on the engine it has disposed:
\* setProps and loadMedia do not look at isDisposed.  The frame loop has
\* ended with dispose() and is left out.
OpenProps == {Props(m, n) : m \in {ImageA, VideoC, FileD, FileE}, n \in {Rest, Glide}}

InitOpen ==
    /\ variant = "framer"
    /\ Constructed
    /\ host = NoHost

NextOpen ==
    \/ dispose /\ UNCHANGED host
    \/ \E p \in OpenProps : isDisposed /\ setProps(p) /\ UNCHANGED host
    \/ \E i \in DOMAIN loads : imageLoaded(i)
    \/ \E i \in DOMAIN loads : imageFailed(i)
    \/ \E i \in DOMAIN loads : videoCanPlay(i)
    \/ \E i \in DOMAIN loads : videoPlaying(i)
    \/ \E i \in DOMAIN loads : videoFailed(i)

SpecOpen == InitOpen /\ [][NextOpen]_vars

\* ------------------------------------------------------------- the canvas
\* The browser delivers the pending animation frame to animate of
\* WebGLCanvas.tsx, with the element at some distance from the centre of the
\* viewport.
animateCanvas ==
    \E r \in raf, target \in Targets :
        /\ variant = "WebGLCanvas"
        /\ r.cb = "animate"
        /\ frames < MaxScrolls
        /\ frames' = frames + 1
        /\ canvas' = [canvas EXCEPT !.scrollRef = eased(canvas.scrollRef, target),
                                    !.uScroll = eased(canvas.scrollRef, target).current]
        /\ uniforms' = [uniforms EXCEPT !.uTime = frames + 1]
        /\ renders' = renders + 1
        /\ rafSeq' = rafSeq + 1
        /\ raf' = (raf \ {r}) \cup {[id |-> rafSeq + 1, cb |-> "animate"]}
        /\ animationFrameId' = rafSeq + 1
        /\ UNCHANGED <<variant, isDisposed, mediaVars, targetProps, animatedProps, released,
                       disposeCalls, host, animated0, framesSince, lastProps, container,
                       cameraAspect, rendererSize, meshScale, uPlaneAspect, resizeFrameId,
                       resizes, recomputes, fragment>>

\* The parent renders the mounted canvas with another intensity and React
\* runs the intensity effect.
intensityEffect(intensity) ==
    /\ variant = "WebGLCanvas"
    /\ released.disconnect = 0
    /\ intensity # canvas.uIntensity
    /\ canvas' = [canvas EXCEPT !.uIntensity = intensity,
                                !.scrollRef.ease = newEase(intensity)]
    /\ UNCHANGED <<variant, isDisposed, mediaVars, uniforms, targetProps, animatedProps,
                   loopVars, released, disposeCalls, host, animated0, framesSince, lastProps,
                   container, cameraAspect, rendererSize, meshScale, uPlaneAspect,
                   resizeFrameId, resizes, recomputes, fragment>>

InitCanvas == variant = "WebGLCanvas" /\ Constructed /\ host = NoHost

NextCanvas ==
    \/ animateCanvas
    \/ \E intensity \in Intensities : intensityEffect(intensity)
    \/ unmount

SpecCanvas == InitCanvas /\ [][NextCanvas]_vars

\* ------------------------------------------------------------- the hook component
\* The React component BendBox of BendBox.tsx, which keeps its scene in refs
\* and loads the media in an effect of its own.  host is as for the wrapper;
\* currentMediaSource is the mediaSource of the latest run of the media
\* effect, which React keeps to compare the dependency list with, and
\* currentObjectUrl is the objectUrl in the closure of that run, which the
\* cleanup it returned will read.  videoElement is videoRef.current.

\* The empty string: the media effect returns early on it.
NoSource == Url("", "", 0, 0)

\* a cleanup of the media effect that revokes nothing
mediaEffectCleanupKeepsUrl == loads

\* The cleanup the media effect returned: if (objectUrl) URL.revokeObjectURL.
mediaEffectCleanup ==
    [i \in DOMAIN loads |->
        [loads[i] EXCEPT !.revokes = IF currentObjectUrl = i THEN @ + 1 ELSE @]]

\* A run of the media effect: React first runs the cleanup of the run before,
\* if that one returned a cleanup.  The body disposes the texture in uTexture
\* and leaves it there, stops the video of videoRef, creates an object URL
\* for a File and starts the load.
mediaEffect(mediaSource) ==
    LET cleaned == mediaEffectCleanup
        k == Len(loads) + 1
        video == isVideoSource(mediaSource)
    IN  /\ currentMediaSource' = mediaSource
        /\ IF Falsy(mediaSource)
           THEN /\ loads' = cleaned
                /\ currentObjectUrl' = 0
                /\ UNCHANGED videoElement
           ELSE /\ loads' =
                     Append([i \in DOMAIN cleaned |->
                               [cleaned[i] EXCEPT
                                   !.disposes = IF uTexture = i THEN @ + 1 ELSE @,
                                   !.el = IF videoElement = i THEN "stopped" ELSE @]],
                            NewLoad(mediaSource, 0, IF video THEN "requested" ELSE "none"))
                /\ videoElement' = IF video THEN k ELSE 0
                /\ currentObjectUrl' = IF mediaSource.kind = "file" THEN k ELSE 0
        /\ UNCHANGED <<loadMediaRequestId, uTexture, uImageAspect>>

\* The effects React runs after a render: the media effect if mediaSource is
\* not the one of its latest run, and the four effects that write a uniform.
runEffects ==
    /\ IF currentMediaSource # host.props.mediaSource
       THEN Len(loads) < MaxLoads /\ mediaEffect(host.props.mediaSource)
       ELSE UNCHANGED mediaVars
    /\ uniforms' = [uniforms EXCEPT !.uFlow = host.props.flow, !.uLens = host.props.lens,
                                   !.uPinch = host.props.pinch, !.uScale = host.props.scale]
    /\ UNCHANGED <<variant, isDisposed, targetProps, animatedProps, loopVars, released,
                   disposeCalls, animated0, framesSince, lastProps, viewVars>>

\* The effects of the first render, after the mount effect has built the scene.
mountBendBox ==
    /\ host.phase = "created"
    /\ runEffects
    /\ host' = [host EXCEPT !.phase = "mounted", !.pending = FALSE]

\* The effects of a later render.
updateBendBox ==
    /\ host.phase = "mounted"
    /\ host.pending
    /\ runEffects
    /\ host' = [host EXCEPT !.pending = FALSE]

\* React unmounts the component and runs the cleanup of every effect: the one
\* of the mount effect, which releases the scene, disposes the texture in
\* uTexture and stops the video, and the one of the media effect.
unmountBendBox ==
    /\ host.phase = "mounted"
    /\ ~host.pending
    /\ raf' = {r \in raf : r.id \notin {animationFrameId, resizeFrameId}}
    /\ released' = [released EXCEPT !.cancelAnimationFrame = @ + 2, !.disconnect = @ + 1,
                                    !.domRemove = @ + 1, !.renderer = @ + 1,
                                    !.geometry = @ + 1, !.material = @ + 1]
    /\ loads' = [i \in DOMAIN loads |->
                   [mediaEffectCleanup[i] EXCEPT
                       !.disposes = IF uTexture = i THEN @ + 1 ELSE @,
                       !.el = IF videoElement = i THEN "stopped" ELSE @]]
    /\ videoElement' = 0
    /\ host' = [host EXCEPT !.phase = "unmounted"]
    /\ UNCHANGED <<variant, isDisposed, currentMediaSource, currentObjectUrl,
                   loadMediaRequestId, uTexture, uImageAspect, uniforms, targetProps,
                   animatedProps, rafSeq, animationFrameId, frames, renders, disposeCalls,
                   animated0, framesSince, lastProps, viewVars>>

HookProps == {Props(m, n) : m \in {ImageA, FileD, FileE, NoSource}, n \in {Rest, Glide}}

InitHook ==
    /\ variant = "BendBox"
    /\ Constructed
    /\ \E p \in HookProps : host = [phase |-> "created", props |-> p, pending |-> FALSE]

\* The frame loop is left out: it reads and writes nothing of the media.
NextHook ==
    \/ mountBendBox
    \/ \E p \in HookProps : render(p)
    \/ updateBendBox
    \/ unmountBendBox
    \/ \E i \in DOMAIN loads : imageLoaded(i)
    \/ \E i \in DOMAIN loads : imageFailed(i)
    \/ \E i \in DOMAIN loads : videoPlaying(i)
    \/ \E i \in DOMAIN loads : videoFailed(i)

SpecHook == InitHook /\ [][NextHook]_vars

\* ============================================================= claims
Settled(i) == loads[i].st \in {"ok", "failed"}
Live == {i \in DOMAIN loads : loads[i].created /\ loads[i].disposes = 0}
Playing == {i \in DOMAIN loads : loads[i].el \in {"requested", "playing"}}

\* C1: when a load is superseded before it settles, only the texture of the
\* latest request is ever put into uTexture; a superseded load that resolves has
\* its texture disposed and changes neither uTexture nor uImageAspect.
\* (The claim as stated, for every version of the engine.)
C1_Supersession ==
    [][\A i \in DOMAIN loads :
          /\ (uTexture' = i /\ uTexture # i) => i = Len(loads)
          /\ (i < Len(loads) /\ ~loads[i].created /\ loads'[i].created)
                => /\ loads'[i].disposes = 1
                   /\ uTexture' = uTexture
                   /\ uImageAspect' = uImageAspect]_vars

\* C2: a load that completes after dispose() has its texture disposed and
\* leaves uTexture and uImageAspect as they were.  (The claim as stated.)
C2_Cancellation ==
    [][\A i \in DOMAIN loads :
          (isDisposed /\ ~Settled(i) /\ loads'[i].st \in {"ok", "failed"})
             => /\ loads'[i].created => loads'[i].disposes >= 1
                /\ uTexture' = uTexture
                /\ uImageAspect' = uImageAspect]_vars

\* C3: dispose() is idempotent: a dispose() call on a disposed engine changes
\* nothing of the engine and makes no release call.
C3_DisposeIdempotent ==
    [][(disposeCalls' = disposeCalls + 1 /\ isDisposed) => UNCHANGED engineVars]_vars

C3_Witness ==
    /\ disposeCalls = 2
    /\ released.cancelAnimationFrame = 1
    /\ \E i \in DOMAIN loads : loads[i].disposes = 1
    /\ \E i \in DOMAIN loads : loads[i].revokes = 1 /\ loads[i].el = "stopped"

\* C4: once dispose() has returned no animation-frame request of the loop is
\* pending, none is requested, animate runs no more, nothing is rendered and
\* uTime, uFlow, uLens, uPinch and uScale are not written.
C4_NoFrameAfterDispose ==
    /\ [](isDisposed => {r \in raf : r.cb = "animate"} = {})
    /\ [][isDisposed => /\ frames' = frames
                        /\ renders' = renders
                        /\ rafSeq' = rafSeq
                        /\ uniforms' = uniforms]_vars

C4_Witness ==
    /\ isDisposed
    /\ variant = "engine"
    /\ frames = 2
    /\ frames < MaxFrames
    /\ animatedProps.flow # targetProps.flow
    /\ disposeCalls = 2
    /\ \E i \in DOMAIN loads : loads[i].st = "ok"

\* C5: every texture that was assigned to uTexture is disposed exactly once:
\* never twice, and once the engine is disposed.  (The claim as stated.)
C5_DisposedExactlyOnce ==
    \A i \in DOMAIN loads :
        loads[i].assigned => /\ loads[i].disposes <= 1
                             /\ isDisposed => loads[i].disposes = 1

C7_OneLiveTexture ==
    /\ [](Cardinality(Live) <= 1)
    /\ [](isDisposed => Live = {})
    /\ [][\A i \in DOMAIN loads :
            (uTexture' = i /\ uTexture # i /\ uTexture # 0)
               => loads[uTexture].disposes >= 1]_vars

\* C8: when loadMedia creates a video element, the elements of all earlier loads
\* are paused with their source detached; at most one video element is playing
\* at any time; none is playing once the engine is disposed.
C8_OneVideoPlaying ==
    /\ [](Cardinality(Playing) <= 1)
    /\ [](isDisposed => Playing = {})
    /\ [][(Len(loads') > Len(loads) /\ loads'[Len(loads')].video)
             => \A i \in DOMAIN loads : loads'[i].el \in {"none", "stopped"}]_vars

C8_Witness ==
    /\ Len(loads) = 3
    /\ loads[1].el = "stopped" /\ loads[1].st = "ok"
    /\ loads[2].el = "stopped"
    /\ loads[3].el = "playing"

\* C9: with motionSpeed in (0,1], N frames after the latest setProps each
\* animated value is within (1 - motionSpeed)^N of its distance to the target
\* at that setProps:  |animated - target| <= |animated0 - target| * (1 - motionSpeed)^N.
\* (Both sides are multiplied by 4^N; (1 - motionSpeed) is a number of quarters.)
C9_GeometricConvergence ==
    (variant \in Smoothing /\ 0 < targetProps.motionSpeed /\ targetProps.motionSpeed <= One)
       => \A f \in Fields :
             Abs(animatedProps[f] - targetProps[f]) * Pow(4, framesSince)
                <= Abs(animated0[f] - targetProps[f])
                      * Pow((One - targetProps.motionSpeed) \div Quarter, framesSince)

C9_Witness ==
    /\ variant \in Smoothing
    /\ framesSince = 2
    /\ targetProps.motionSpeed = Quarter
    /\ \A f \in Fields : /\ animated0[f] # targetProps[f]
                         /\ animatedProps[f] # targetProps[f]
                         /\ animatedProps[f] # animated0[f]

\* C10: for motionSpeed in (0,1] a frame moves each animated value toward its
\* target without overshoot: the new value lies between the old value and the
\* target, and its distance to the target does not grow.
C10_NoOvershoot ==
    [][(frames' = frames + 1 /\ variant \in Smoothing
          /\ 0 < targetProps.motionSpeed /\ targetProps.motionSpeed <= One)
         => \A f \in Fields :
               /\ \/ animatedProps[f] <= animatedProps'[f] /\ animatedProps'[f] <= targetProps[f]
                  \/ targetProps[f] <= animatedProps'[f] /\ animatedProps'[f] <= animatedProps[f]
               /\ Abs(animatedProps'[f] - targetProps'[f])
                     <= Abs(animatedProps[f] - targetProps[f])]_vars

C10_Witness ==
    /\ variant \in Smoothing
    /\ framesSince >= 1
    /\ \E f \in Fields : animated0[f] < animatedProps[f] /\ animatedProps[f] < targetProps[f]
    /\ \E f \in Fields : targetProps[f] < animatedProps[f] /\ animatedProps[f] < animated0[f]
    /\ uniforms.uScale = animatedProps.scale

\* C11: with motionSpeed = 1, the first frame after a setProps call makes uFlow,
\* uLens, uPinch and uScale exactly the targets given to that call; a scale
\* target of 1 gives uScale = 1.0 after that frame.
C11_ImmediateSnap ==
    [][(frames' = frames + 1 /\ framesSince = 0 /\ lastProps # NoProps
          /\ lastProps.motionSpeed = One)
         => /\ uniforms'.uFlow = lastProps.flow
            /\ uniforms'.uLens = lastProps.lens
            /\ uniforms'.uPinch = lastProps.pinch
            /\ uniforms'.uScale = lastProps.scale
            /\ lastProps.scale = One => uniforms'.uScale = One]_vars

C11_Witness ==
    /\ variant \in Smoothing
    /\ framesSince = 1
    /\ lastProps.motionSpeed = One
    /\ lastProps.scale = One
    /\ \A f \in Fields \ {"flow"} : animated0[f] # lastProps[f]
    /\ animated0.flow \notin {0, Half, Quarter}
    /\ uniforms.uScale = One
    /\ uniforms.uFlow = 0

\* C12: after a setProps call that leaves motionSpeed out, the engine works with
\* its default: targetProps.motionSpeed is a number in (0,1], and the animated
\* values and the uniforms are finite numbers.  (The claim as stated.)
C12_DefaultMotionSpeed ==
    (variant \in Smoothing /\ lastProps # NoProps /\ lastProps.motionSpeed = undefined)
       => /\ isFinite(targetProps.motionSpeed)
          /\ 0 < targetProps.motionSpeed /\ targetProps.motionSpeed <= One
          /\ \A f \in Fields : isFinite(animatedProps[f])
          /\ \A u \in {"uFlow", "uLens", "uPinch", "uScale"} : isFinite(uniforms[u])

\* C13: in the smoothing versions, setProps leaves animatedProps and the uFlow,
\* uLens, uPinch and uScale uniforms as they are and renders nothing; these
\* values change, and a render is made, only in a step of animate.
C13_SetPropsDefers ==
    [][(variant \in Smoothing) =>
         ( /\ (lastProps' # lastProps \/ targetProps' # targetProps)
                 => /\ animatedProps' = animatedProps
                    /\ uniforms' = uniforms
                    /\ renders' = renders
                    /\ raf' = raf
           /\ (animatedProps' # animatedProps \/ uniforms' # uniforms \/ renders' # renders)
                 => frames' = frames + 1 )]_vars

C13_Witness ==
    /\ variant \in Smoothing
    /\ lastProps # NoProps
    /\ framesSince = 0
    /\ frames >= 1
    /\ renders = frames + 1
    /\ \A f \in Fields : animatedProps[f] # targetProps[f]
    /\ uniforms.uFlow = animatedProps.flow
    /\ uniforms.uScale = animatedProps.scale
    /\ uniforms.uScale # lastProps.scale

\* C14: however many setProps calls are made between two frames, the next frame
\* interpolates toward the values of the latest call only: flow, lens, pinch,
\* scale and motionSpeed of a frame all come from that one call.
C14_LatestCallOnly ==
    /\ []((variant \in Smoothing /\ lastProps # NoProps)
            => /\ \A f \in Fields : targetProps[f] = lastProps[f]
               /\ targetProps.motionSpeed = lastProps.motionSpeed)
    /\ [][(variant \in Smoothing /\ lastProps # NoProps /\ frames' = frames + 1)
            => \A f \in Fields :
                  animatedProps'[f] = lerp(animatedProps[f], lastProps[f], lastProps.motionSpeed)]_vars

C14_Witness ==
    /\ variant \in Smoothing
    /\ frames = 1
    /\ framesSince = 1
    /\ Len(loads) = 3
    /\ lastProps.motionSpeed = 3 * Quarter
    /\ \A f \in Fields : /\ animatedProps[f] = lerp(animated0[f], lastProps[f], 3 * Quarter)
                         /\ animatedProps[f] # animated0[f]
                         /\ animatedProps[f] # lastProps[f]

\* C15: setProps starts a media load exactly when props.mediaSource is not
\* identical to currentMediaSource, and the load is for that source; setProps
\* calls that keep the source and change only the numbers start no load, dispose
\* no texture and leave the media state as it is.
C15_LoadIffSourceChanges ==
    [][/\ (Len(loads') = Len(loads) + 1) <=> (lastProps'.mediaSource # currentMediaSource)
       /\ (Len(loads') = Len(loads) + 1)
             => /\ loads'[Len(loads')].src = lastProps'.mediaSource
                /\ currentMediaSource' = lastProps'.mediaSource
       /\ (lastProps' # lastProps /\ lastProps'.mediaSource = currentMediaSource)
             => UNCHANGED mediaVars]_vars

C15_Witness ==
    /\ ~isDisposed
    /\ variant \in Smoothing
    /\ Len(loads) = 1
    /\ loads[1].st = "ok" /\ loads[1].disposes = 0 /\ uTexture = 1
    /\ frames = 2
    /\ framesSince = 0
    /\ animated0.flow = lerp(lerp(0, Half, Quarter), Quarter, 3 * Quarter)
    /\ lastProps.motionSpeed = One

\* C16: when a media load fails, uTexture holds what it held when that load was
\* requested (the same texture, or none), and that texture is not disposed.
\* (The claim as stated.)
C16_FailureKeepsPrevious ==
    [][\A i \in DOMAIN loads :
          (~Settled(i) /\ loads'[i].st = "failed")
             => /\ uTexture' = loads[i].prev
                /\ loads[i].prev # 0 => loads'[loads[i].prev].disposes = 0]_vars

\* C17: a failed media load or video playback does not interrupt the frame
\* loop: the failure leaves the engine not disposed and its animation frame
\* scheduled, a running engine always has one frame of the loop pending, and
\* the setProps call that started the load has written its targets (nothing is
\* thrown out of it).
C17_FailureKeepsLoop ==
    /\ [](~isDisposed => Cardinality({r \in raf : r.cb = "animate"}) = 1)
    /\ [][(\E i \in DOMAIN loads : ~Settled(i) /\ loads'[i].st = "failed")
            => /\ isDisposed' = isDisposed
               /\ raf' = raf
               /\ animationFrameId' = animationFrameId
               /\ renders' = renders]_vars
    /\ [][(Len(loads') = Len(loads) + 1 /\ variant \in Smoothing)
            => targetProps' = Numbers(lastProps')]_vars

C17_Witness ==
    /\ ~isDisposed
    /\ Len(loads) = 3
    /\ \E i, j \in DOMAIN loads :
          /\ loads[i].st = "failed" /\ loads[i].video
          /\ loads[j].st = "failed" /\ ~loads[j].video
    /\ loads[3].st = "ok"
    /\ frames = 2
    /\ framesSince = 2
    /\ \E r \in raf : r.cb = "animate" /\ r.id = animationFrameId

\* C18: a string source is loaded as a video exactly when it ends with .mp4,
\* .webm or .mov in any letter case, and as an image otherwise; a File source
\* is loaded as a video exactly when its declared type starts with video/,
\* whatever its name.
C18_Classification ==
    \A i \in DOMAIN loads :
        LET src == loads[i].src
            claimed ==
                IF src.kind = "file"
                THEN src.type[1] = "video"
                ELSE src.ext \in {"mp4", "MP4", "Mp4", "webm", "WEBM", "WebM", "mov", "MOV", "moV"}
        IN  /\ loads[i].video <=> claimed
            /\ (loads[i].el # "none") <=> claimed
            /\ (videoElement = i) => claimed

C18_Witness ==
    /\ Len(loads) = 1
    /\ loads[1].src.kind = "file"
    /\ loads[1].src.ext = "png"
    /\ loads[1].src.type = <<"video", "webm">>
    /\ loads[1].el = "playing"
    /\ uTexture = 1


PendingResize == {r \in raf : r.cb = "resize"}

\* C19: the callback of the resize observer changes neither camera.aspect nor
\* the renderer size, the mesh scale or uPlaneAspect; it only schedules the
\* recomputation, which is made in a later animation-frame callback.
\* (The claim as stated, for the engines and the two components.)
C19_ResizeDeferred ==
    [][/\ (resizes' = resizes + 1)
             => /\ cameraAspect' = cameraAspect
                /\ rendererSize' = rendererSize
                /\ meshScale' = meshScale
                /\ uPlaneAspect' = uPlaneAspect
                /\ \E r \in PendingResize' : r \notin raf
       /\ (recomputes' # recomputes)
             => \E r \in PendingResize : r \notin raf']_vars

\* C20: however often the resize observer fires before the next animation
\* frame, at most one recomputation is pending, and the frame makes exactly
\* one: after it no recomputation is pending any more.  (The claim as stated.)
C20_ResizeCoalesced ==
    /\ [](Cardinality(PendingResize) <= 1)
    /\ [][(recomputes' = recomputes + 1 /\ resizes' = resizes) => PendingResize' = {}]_vars


\* C21: a container of zero width or height, at construction or on a resize,
\* makes the engine skip the recomputation: camera.aspect, the mesh scale and
\* uPlaneAspect are finite in every state, and a frame callback that finds the
\* container degenerate leaves the three as they were, while one that finds it
\* with a width and a height recomputes them.  (The claim as stated.)
Degenerate(size) == size[1] = 0 \/ size[2] = 0

C21_DegenerateSkipped ==
    /\ [](/\ FiniteFraction(cameraAspect)
          /\ FiniteFraction(meshScale[1])
          /\ FiniteFraction(uPlaneAspect))
    /\ [][(Degenerate(container) /\ PendingResize' # PendingResize /\ resizes' = resizes)
            => UNCHANGED <<cameraAspect, meshScale, uPlaneAspect>>]_vars
    /\ [][(/\ ~Degenerate(container) /\ ~isDisposed
            /\ PendingResize' # PendingResize /\ resizes' = resizes)
            => /\ cameraAspect' = Ratio(container)
               /\ meshScale' = PlaneScale(Ratio(container))
               /\ uPlaneAspect' = Ratio(container)]_vars


\* C22: the wrapper has one engine from its mount on, calls dispose() exactly
\* once, at unmount, and calls setProps on no disposed engine.
C22_WrapperLifecycle ==
    /\ [](/\ host.phase \in {"created", "mounted"} => disposeCalls = 0 /\ ~isDisposed
          /\ host.phase = "unmounted" => disposeCalls = 1 /\ isDisposed)
    /\ [][isDisposed => UNCHANGED <<lastProps, targetProps, uniforms, currentMediaSource,
                                  loadMediaRequestId>>]_vars
    /\ [][(disposeCalls' # disposeCalls)
            => host.phase = "mounted" /\ host'.phase = "unmounted"]_vars

C22_Witness ==
    /\ host.phase = "unmounted"
    /\ disposeCalls = 1
    /\ isDisposed
    /\ lastProps = host.props
    /\ Len(loads) = 2

\* C23: when the effects of the latest render have run, the targets of the
\* engine (the uniforms of the snapping engine) and its currentMediaSource are
\* those of the latest props.
C23_LatestProps ==
    (host.phase = "mounted" /\ ~host.pending)
        => /\ currentMediaSource = host.props.mediaSource
           /\ variant = "framer" => targetProps = Numbers(host.props)
           /\ variant = "snap" =>
                 /\ uniforms.uFlow = host.props.flow
                 /\ uniforms.uLens = host.props.lens
                 /\ uniforms.uPinch = host.props.pinch
                 /\ uniforms.uScale = host.props.scale

C23_Witness ==
    /\ variant = "framer"
    /\ host.phase = "mounted"
    /\ ~host.pending
    /\ host.props = Props(ImageB, Hasty)
    /\ targetProps = Numbers(Props(ImageB, Hasty))
    /\ currentMediaSource = ImageB
    /\ Len(loads) = 2
    /\ loads[1].src = ImageA


\* C24: in cover-and-crop mode a fragment is discarded exactly when its
\* remapped UV, (uv - 0.5) / scaleVec + 0.5 with scaleVec = (1 / R, 1) if
\* R > 1 and (1, R) otherwise, R = planeAspect / imageAspect, is outside
\* [0, 1] on either axis; with imageAspect = 2 and planeAspect = 1 the
\* fragments at (0, 0) and (1, 1) are discarded and the one at (0.5, 0.5)
\* is not.
C24_Inside(x) == ~Less(x, <<0, 1>>) /\ ~Less(<<1, 1>>, x)

C24_Remapped(f) ==
    LET R == Divided(f.planeAspect, f.imageAspect)
        scaleVec == IF Less(<<1, 1>>, R) THEN <<Divided(<<1, 1>>, R), <<1, 1>>>>
                    ELSE <<<<1, 1>>, R>>
    IN  [i \in 1..2 |-> Plus(Divided(Minus(f.uv[i], <<1, 2>>), scaleVec[i]), <<1, 2>>)]

C24_CoverAndCrop ==
    fragment # NoFragment
        => /\ fragment.discarded
                <=> ~(C24_Inside(C24_Remapped(fragment)[1])
                      /\ C24_Inside(C24_Remapped(fragment)[2]))
           /\ (/\ Divided(fragment.imageAspect, <<1, 1>>) = <<2, 1>>
               /\ fragment.planeAspect = <<1, 1>>)
                => /\ fragment.uv \in {<<<<0, 4>>, <<0, 4>>>>, <<<<4, 4>>, <<4, 4>>>>}
                        => fragment.discarded
                   /\ fragment.uv = <<<<2, 4>>, <<2, 4>>>> => ~fragment.discarded

C24_Witness ==
    /\ fragment.imageAspect = <<8, 4>>
    /\ fragment.planeAspect = <<1, 1>>
    /\ fragment.uv = <<<<4, 4>>, <<4, 4>>>>
    /\ fragment.correctedUv = <<<<1, 1>>, <<3, 2>>>>
    /\ fragment.discarded


\* C25: when a load fails that a newer loadMedia call has superseded, the
\* failure changes nothing: no object URL of a newer request is revoked, and
\* uTexture, uImageAspect, currentObjectUrl and videoElement stay as they are.
\* (The claim as stated.)
C25_StaleFailureNoOp ==
    [][\A i \in DOMAIN loads :
          (~Settled(i) /\ loads'[i].st = "failed" /\ loads[i].req < loadMediaRequestId)
             => /\ UNCHANGED <<uTexture, uImageAspect, currentObjectUrl, videoElement>>
                /\ \A j \in DOMAIN loads : j > i => loads'[j].revokes = loads[j].revokes]_vars


\* C26: the latest loadMedia request leads to the assignment of its texture to
\* uTexture, together with its native width : height to uImageAspect, unless
\* its own load fails, a newer request supersedes it or the engine is
\* disposed; whatever the loads before it do, and whenever.
C26_Latest(k) ==
    IF Len(loads) = k THEN loads[k].req = loadMediaRequestId ELSE FALSE

C26_Outcome(k) ==
    IF Len(loads) = k /\ loads[k].req = loadMediaRequestId /\ ~isDisposed
    THEN loads[k].assigned \/ loads[k].st = "failed"
    ELSE TRUE

C26_LatestLoadAssigned ==
    /\ [][\A k \in DOMAIN loads :
              (~loads[k].assigned /\ loads'[k].assigned)
                 => uTexture' = k /\ uImageAspect' = Resolution(k)]_vars
    /\ \A k \in 1..MaxLoads : C26_Latest(k) ~> C26_Outcome(k)

C26_Witness ==
    /\ ~isDisposed
    /\ Len(loads) = 3
    /\ loads[1].st = "failed"
    /\ loads[2].st = "ok"
    /\ loads[3].st = "ok"
    /\ loads[3].assigned
    /\ uTexture = 3
    /\ uImageAspect = Resolution(3)


\* C27: while the engine is not disposed, every frame finds uTexture null or
\* holding a texture that was not disposed.  (The claim as stated.)
C27_NoDisposedTextureRendered ==
    [][(frames' = frames + 1 /\ ~isDisposed)
          => (uTexture = 0 \/ loads[uTexture].disposes = 0)]_vars


\* C28: from the end of the constructor until dispose(), one animation-frame
\* request of the loop is pending, no more and no less, and animationFrameId
\* is its handle; the requests that onResize makes are others.
C28_OneFrameRequest ==
    (variant \in Variants /\ ~isDisposed)
        => {r \in raf : r.cb = "animate"} = {[id |-> animationFrameId, cb |-> "animate"]}

C28_Witness ==
    /\ variant = "engine"
    /\ ~isDisposed
    /\ frames = 2
    /\ animationFrameId = 4
    /\ raf = {[id |-> 2, cb |-> "resize"], [id |-> 4, cb |-> "animate"]}


\* C29: the callback of a recomputation that was scheduled before dispose()
\* and runs after it changes nothing; in BendBox.tsx, whose cleanup cancels
\* the request, no such callback is left to run.
C29_LateResizeNoOp ==
    /\ []((variant = "BendBox" /\ released.disconnect > 0) => PendingResize = {})
    /\ [][(/\ (isDisposed \/ released.disconnect > 0)
            /\ PendingResize' # PendingResize)
            => UNCHANGED <<isDisposed, mediaVars, uniforms, targetProps, animatedProps,
                           released, frames, renders, animationFrameId, container,
                           cameraAspect, rendererSize, meshScale, uPlaneAspect,
                           recomputes>>]_vars

C29_Witness ==
    /\ variant = "framer"
    /\ isDisposed
    /\ resizes = 2
    /\ container = <<3, 4>>
    /\ rendererSize = <<4, 3>>
    /\ recomputes = 0
    /\ PendingResize = {}


\* C30: in every state uPlaneAspect equals camera.aspect and the mesh scale is
\* (width / 2, height / 2) with width = height * camera.aspect; after the
\* construction and after every recomputation both equal clientWidth /
\* clientHeight of the container at that moment.  (The claim as stated.)
C30_PlaneMatchesCamera ==
    /\ [](/\ StrictEquals(uPlaneAspect, cameraAspect)
          /\ StrictEquals(meshScale[1], Over(Times(PlaneHeight, cameraAspect), <<2, 1>>))
          /\ StrictEquals(meshScale[2], Over(PlaneHeight, <<2, 1>>)))
    /\ []((resizes = 0 /\ recomputes = 0)
             => /\ StrictEquals(cameraAspect, Ratio(container))
                /\ StrictEquals(uPlaneAspect, Ratio(container)))
    /\ [][(recomputes' = recomputes + 1)
            => /\ StrictEquals(cameraAspect', Ratio(container'))
               /\ StrictEquals(uPlaneAspect', Ratio(container'))]_vars


C32_OneLoadAtMount ==
    /\ [](host.phase = "created" => Len(loads) = 0)
    /\ [][(host.phase = "created" /\ host'.phase = "mounted")
            => /\ Len(loads') = 1
               /\ currentMediaSource' = host.props.mediaSource]_vars
    /\ [][(host.pending /\ ~host'.pending /\ lastProps = host.props)
            => UNCHANGED mediaVars]_vars

C32_Witness ==
    /\ host.phase = "mounted"
    /\ ~host.pending
    /\ lastProps = host.props
    /\ Len(loads) = 1
    /\ loads[1].st = "pending"
    /\ loads[1].disposes = 0
    /\ currentMediaSource = host.props.mediaSource


\* C33: a failed load leaves currentMediaSource at the failed source, so a
\* further setProps call with the identical source starts no load; every load
\* is of a source other than the one requested before it, so a failed source
\* is loaded again only after a call with a different source.
C33_FailedSourceNotRetried ==
    /\ [][((\E i \in DOMAIN loads : /\ loads[i].st = "failed"
                                     /\ loads[i].src = lastProps.mediaSource)
            /\ lastProps'.mediaSource = lastProps.mediaSource)
            => /\ Len(loads') = Len(loads)
               /\ UNCHANGED <<currentMediaSource, loadMediaRequestId>>]_vars
    /\ [](\A i \in DOMAIN loads :
            /\ (loads[i].st = "failed" /\ i = Len(loads)) => currentMediaSource = loads[i].src
            /\ i > 1 => loads[i].src # loads[i - 1].src)

C33_Witness ==
    /\ Len(loads) = 3
    /\ loads[1].st = "failed"
    /\ loads[2].src # loads[1].src
    /\ loads[3].src = loads[1].src
    /\ loads[3].st = "failed"
    /\ currentMediaSource = loads[3].src
    /\ lastProps.mediaSource = loads[3].src
    /\ ~isDisposed


\* C34: after dispose(), a setProps call with a new mediaSource changes no
\* uniform and leaves no resource unreleased: once its load has settled, the
\* object URL it created is revoked, the texture it created is disposed and
\* the video element it created is not playing.
C34_Unchanged == [][isDisposed => UNCHANGED <<uniforms, uTexture, uImageAspect>>]_vars
C34_Released ==
    \A i \in DOMAIN loads :
        (isDisposed /\ Settled(i))
            => /\ loads[i].url => loads[i].revokes = 1
               /\ loads[i].created => loads[i].disposes = 1
               /\ loads[i].el # "playing"
C34_SetPropsAfterDispose == []C34_Released /\ C34_Unchanged


\* C35: in letterbox mode the remapped UV, uv * ratio + (1 - ratio) * 0.5, is
\* inside [0, 1] on both axes for every uv of the plane and all positive
\* aspects, and one component of ratio at least is 1.
C35_InUnitSquare(x) == ~Less(x, <<0, 1>>) /\ ~Less(<<1, 1>>, x)

C35_Letterbox ==
    fragment # NoFragment
        => /\ ~fragment.discarded
           /\ C35_InUnitSquare(fragment.correctedUv[1])
           /\ C35_InUnitSquare(fragment.correctedUv[2])
           /\ fragment.ratio[1] = <<1, 1>> \/ fragment.ratio[2] = <<1, 1>>
           /\ \A i \in 1..2 :
                 fragment.correctedUv[i]
                     = Plus(Norm(fragment.uv[i][1] * fragment.ratio[i][1],
                                 fragment.uv[i][2] * fragment.ratio[i][2]),
                            Divided(Minus(<<1, 1>>, fragment.ratio[i]), <<2, 1>>))

C35_Witness ==
    /\ fragment.planeAspect = <<4, 3>>
    /\ fragment.imageAspect = <<16, 9>>
    /\ fragment.uv = <<<<4, 4>>, <<0, 4>>>>
    /\ fragment.ratio = <<<<3, 4>>, <<1, 1>>>>
    /\ fragment.correctedUv = <<<<7, 8>>, <<0, 1>>>>


\* C36: in the hook component every object URL the media effect created for a
\* File is revoked exactly once, by the cleanup of that run of the effect, at
\* the next change of mediaSource or at unmount, and not before; a source
\* given as a URL string never causes a revoke.
C36_Revokes ==
    \A i \in DOMAIN loads :
        /\ loads[i].url = (loads[i].src.kind = "file")
        /\ loads[i].revokes =
              IF loads[i].url /\ (currentObjectUrl # i \/ host.phase = "unmounted")
              THEN 1 ELSE 0
        /\ currentObjectUrl = i => (i = Len(loads) /\ loads[i].src = currentMediaSource)

C36_ByTheCleanup ==
    [][(\E i \in DOMAIN loads : loads'[i].revokes # loads[i].revokes)
        => \/ host.phase = "mounted" /\ host'.phase = "unmounted"
           \/ currentMediaSource' # currentMediaSource]_vars

C36_ObjectUrlRevokedOnce == []C36_Revokes /\ C36_ByTheCleanup

C36_Witness ==
    /\ host.phase = "unmounted"
    /\ Len(loads) = 3
    /\ loads[1].url /\ loads[1].revokes = 1
    /\ ~loads[2].url /\ loads[2].revokes = 0
    /\ loads[3].url /\ loads[3].revokes = 1
    /\ currentObjectUrl = 3


\* C37: the ease the intensity effect sets is minEase + (intensity / 1.5) *
\* (maxEase - minEase): it increases with intensity and is within
\* [0.03, 0.2] for intensities in [0, 1.5], so every frame's update
\* current += (target - current) * ease moves current toward target and
\* never beyond it.
C37_Before(p, q) == Difference(q, p)[1] > 0

C37_Ease ==
    variant = "WebGLCanvas"
        => /\ canvas.scrollRef.ease
                = Sum(<<3, 100>>, Product(Divided(canvas.uIntensity, <<3, 2>>), <<17, 100>>))
           /\ ~C37_Before(canvas.scrollRef.ease, <<3, 100>>)
           /\ ~C37_Before(<<1, 5>>, canvas.scrollRef.ease)
           /\ canvas.uScroll = canvas.scrollRef.current

C37_Increasing ==
    [][C37_Before(canvas.uIntensity, canvas'.uIntensity)
          => C37_Before(canvas.scrollRef.ease, canvas'.scrollRef.ease)]_vars

C37_TowardTarget ==
    [][frames' # frames
          => LET c == canvas.scrollRef.current
                 t == canvas'.scrollRef.target
                 n == canvas'.scrollRef.current
             IN  /\ C37_Before(c, t) => (C37_Before(c, n) /\ C37_Before(n, t))
                 /\ C37_Before(t, c) => (C37_Before(n, c) /\ C37_Before(t, n))
                 /\ c = t => n = c]_vars

C37_ScrollEase == []C37_Ease /\ C37_Increasing /\ C37_TowardTarget

C37_Witness ==
    /\ variant = "WebGLCanvas"
    /\ frames = 2
    /\ canvas.uIntensity = <<3, 2>>
    /\ canvas.scrollRef.ease = <<1, 5>>
    /\ canvas.scrollRef.target = <<10, 1>>
    /\ canvas.scrollRef.current = <<82, 25>>

====
